---- MODULE Spec2Model ----
(***************************************************************************)
(* Transport layer of wchisp: the command/response exchange of the         *)
(* Transport trait (src/transport/mod.rs) and the USB channel that         *)
(* realises it (src/transport/usb.rs).                                     *)
(*                                                                         *)
(* Two specifications share the module:                                    *)
(*   Spec     one channel with a scripted peer; transfer and               *)
(*            transfer_with_wait are called on it.                         *)
(*   SpecUsb  the USB bus: devices are attached and detached, scanned,     *)
(*            opened (open_nth, open_any) and channels are dropped.        *)
(***************************************************************************)
EXTENDS Integers, Sequences, FiniteSets, TLC

VARIABLES
    chan,          \* behaviour of the channel under the exchange (peer, log level)
    out,           \* outcome of the last transfer / transfer_with_wait call
    lastTransfer,  \* outcome of the most recent transfer() call on this channel
    bus,           \* USB bus: slot -> attached device or NoDevice
    held,          \* slot -> interface 0 of that device is claimed by an open handle
    channels,      \* slot -> number of live UsbTransport objects on that device
    last           \* the last operation on the bus and its outcome

vars == <<chan, out, lastTransfer, bus, held, channels, last>>
xferVars == <<chan, out, lastTransfer>>
usbVars == <<bus, held, channels, last>>

(***************************************************************************)
(* Bounds of the model.                                                    *)
(***************************************************************************)
MaxBody == 2        \* longest command payload after the type-tag byte
MaxPktLen == 5      \* longest short packet the peer sends (besides full buffers)
MaxDevices == 2     \* slots on the USB bus

(***************************************************************************)
(* Program constants.                                                      *)
(***************************************************************************)
DEFAULT_TRANSPORT_TIMEOUT_MS == 1000
ENDPOINT_OUT == 2
ENDPOINT_IN == 130
USB_TIMEOUT_MS == 5000
RECV_BUF_LEN == 64
OUT_HEADER_LEN == 3
IN_HEADER_LEN == 4
SLEEP_US == 1
VENDOR_ID == 17224
PRODUCT_ID == 21984

(***************************************************************************)
(* Values.                                                                 *)
(***************************************************************************)
Tags == {1, 2}
\* payload bytes of the commands: 0xAA, 0xBB, then zeros
PayloadByte(i) == IF i = 1 THEN 170 ELSE IF i = 2 THEN 187 ELSE 0
\* fill bytes of the peer's packets: 0xCC or 0x00
Fills == {204, 0}
Waits == {DEFAULT_TRANSPORT_TIMEOUT_MS, USB_TIMEOUT_MS}
\* a peer that takes its time to reply, in ms
SlowReply == 1500

\* anyhow::Result, flattened: kind is "Ok", "Err" or "Panic" (abnormal termination)
Ok(tag) == [kind |-> "Ok", err |-> "", tag |-> tag]
Err(what) == [kind |-> "Err", err |-> what, tag |-> 0]
Panic(where) == [kind |-> "Panic", err |-> where, tag |-> 0]

\* one entry of the call trace of an exchange
Ev(op, ep, data, timeout) == [op |-> op, ep |-> ep, data |-> data, timeout |-> timeout]

Zeros(n) == [i \in 1..n |-> 0]
Packet(tag, fill, n) == [i \in 1..n |-> IF i = 1 THEN tag ELSE fill]

(***************************************************************************)
(* Commands and their serialisation (crate::protocol, outside these        *)
(* sources): a command serialises to its type tag followed by its payload, *)
(* or fails to serialise.                                                  *)
(***************************************************************************)
Commands ==
    [tag : Tags, len : 0..MaxBody, encodable : {TRUE}]
        \cup {[tag |-> 1, len |-> 2, encodable |-> FALSE]}

into_raw(cmd) ==
    IF cmd.encodable
    THEN [kind |-> "Ok", raw |-> <<cmd.tag>> \o [i \in 1..cmd.len |-> PayloadByte(i)]]
    ELSE [kind |-> "Err", raw |-> <<>>]

\* Response::from_raw (crate::protocol): decodes a frame with a valid layout into a
\* Response of the frame's type tag, fails with a decoding error otherwise.
from_raw(resp, layoutValid) ==
    IF layoutValid /\ Len(resp) > 0 THEN Ok(resp[1]) ELSE Err("decoding")

(***************************************************************************)
(* Channel behaviours: what the bulk write reports, what the peer replies  *)
(* and when, and whether the debug log level is enabled.                   *)
(***************************************************************************)
\* short packets of every length and content, and packets that fill or overflow
\* the receive buffer
Packets ==
    {Packet(t, f, n) : t \in Tags, f \in Fills, n \in 0..MaxPktLen}
        \cup {Packet(t, 204, n) : t \in Tags, n \in {RECV_BUF_LEN, RECV_BUF_LEN + 1}}
Replies ==
    [kind : {"Pkt"}, pkt : Packets, delay : {0}, valid : BOOLEAN]
        \cup {[kind |-> "Pkt", pkt |-> Packet(t, 204, MaxPktLen), delay |-> SlowReply,
                valid |-> TRUE] : t \in Tags}
        \cup {[kind |-> "Err", pkt |-> <<>>, delay |-> 0, valid |-> FALSE]}
\* when the write fails the peer is never asked for a reply
Channels ==
    [log : BOOLEAN, write : {"Ok"}, reply : Replies]
        \cup [log : BOOLEAN, write : {"Err"},
              reply : {[kind |-> "Err", pkt |-> <<>>, delay |-> 0, valid |-> FALSE]}]

(***************************************************************************)
(* rusb bulk transfers on the handle, as the channel behaviour decides.    *)
(***************************************************************************)
\* DeviceHandle::write_bulk: Ok or an I/O error
write_bulk(ep, data, timeout, ch) ==
    [kind |-> ch.write, ev |-> Ev("write_bulk", ep, data, timeout)]

\* DeviceHandle::read_bulk into buf: the peer's packet is copied to the front of
\* buf and its length returned; an I/O error, a timeout when the peer is slower
\* than the timeout, an overflow when the packet does not fit in buf.
read_bulk(ep, buf, timeout, ch) ==
    LET r == ch.reply
        ev == Ev("read_bulk", ep, <<>>, timeout)
    IN  IF r.kind = "Err"
        THEN [kind |-> "Err", err |-> "io", nread |-> 0, buf |-> buf, ev |-> ev]
        ELSE IF r.delay >= timeout
        THEN [kind |-> "Err", err |-> "timeout", nread |-> 0, buf |-> buf, ev |-> ev]
        ELSE IF Len(r.pkt) > Len(buf)
        THEN [kind |-> "Err", err |-> "overflow", nread |-> 0, buf |-> buf, ev |-> ev]
        ELSE [kind |-> "Ok", err |-> "", nread |-> Len(r.pkt),
              buf |-> [i \in 1..Len(buf) |-> IF i <= Len(r.pkt) THEN r.pkt[i] ELSE buf[i]],
              ev |-> ev]

(***************************************************************************)
(* impl Transport for UsbTransport                                         *)
(***************************************************************************)
\* a send_raw that pads the bytes to a full 64-byte packet
send_raw_padded(raw, ch) ==
    LET padded == raw \o Zeros(RECV_BUF_LEN - Len(raw))
        w == write_bulk(ENDPOINT_OUT, padded, USB_TIMEOUT_MS, ch)
    IN  [calls |-> <<Ev("send_raw", 0, raw, 0), w.ev>>, kind |-> w.kind]

send_raw(raw, ch) ==
    LET w == write_bulk(ENDPOINT_OUT, raw, USB_TIMEOUT_MS, ch) IN
    [calls |-> <<Ev("send_raw", 0, raw, 0), w.ev>>, kind |-> w.kind]

\* a recv_raw that returns the whole buffer instead of the bytes read
recv_raw_whole_buffer(timeout, ch) ==
    LET buf == Zeros(RECV_BUF_LEN)
        r == read_bulk(ENDPOINT_IN, buf, timeout, ch)
    IN  [calls |-> <<Ev("recv_raw", 0, <<>>, timeout), r.ev>>,
         kind |-> r.kind,
         err |-> r.err,
         data |-> IF r.kind = "Ok" THEN r.buf ELSE <<>>]

\* a recv_raw that reads with the hardware timeout instead of the caller's
recv_raw_hw_timeout(timeout, ch) ==
    LET buf == Zeros(RECV_BUF_LEN)
        r == read_bulk(ENDPOINT_IN, buf, USB_TIMEOUT_MS, ch)
    IN  [calls |-> <<Ev("recv_raw", 0, <<>>, timeout), r.ev>>,
         kind |-> r.kind,
         err |-> r.err,
         data |-> IF r.kind = "Ok" THEN SubSeq(r.buf, 1, r.nread) ELSE <<>>]

recv_raw(timeout, ch) ==
    LET buf == Zeros(RECV_BUF_LEN)
        r == read_bulk(ENDPOINT_IN, buf, timeout, ch)
    IN  [calls |-> <<Ev("recv_raw", 0, <<>>, timeout), r.ev>>,
         kind |-> r.kind,
         err |-> r.err,
         data |-> IF r.kind = "Ok" THEN SubSeq(r.buf, 1, r.nread) ELSE <<>>]

(***************************************************************************)
(* trait Transport: the exchange.                                          *)
(***************************************************************************)
\* the result of one exchange: the calls it made, the serialised command, whether
\* recv_raw returned a frame and which, and what the caller gets
Exchange(calls, req, received, resp, result) ==
    [calls |-> calls, req |-> req, received |-> received, resp |-> resp,
     result |-> result]

\* log::debug!("=> {}   {}", hex::encode(&req[..3]), hex::encode(&req[3..])):
\* the arguments are evaluated only when the debug level is enabled
LogOutboundPanics(req, ch) == ch.log /\ Len(req) < OUT_HEADER_LEN

\* log::debug!("<= {} {}", hex::encode(&resp[..4]), hex::encode(&resp[4..]))
LogInboundPanics(resp, ch) == ch.log /\ Len(resp) < IN_HEADER_LEN

\* anyhow::ensure!(req[0] == resp[0], ...): indexing an empty slice aborts
TypeTagIndexPanics(req, resp) == Len(req) = 0 \/ Len(resp) = 0

\* an exchange that accepts any reply
TypeTagUnchecked(req, resp) == TRUE

TypeTagMatches(req, resp) == req[1] = resp[1]

\* an exchange that decodes the frame before it checks the type tag
ValidateAndDecode_decode_first(calls, req, resp, ch) ==
    LET decoded == calls \o <<Ev("from_raw", 0, resp, 0)>> IN
    IF TypeTagIndexPanics(req, resp)
    THEN Exchange(calls, req, TRUE, resp, Panic("index out of bounds"))
    ELSE IF ~TypeTagMatches(req, resp)
    THEN Exchange(decoded, req, TRUE, resp, Err("response command type mismatch"))
    ELSE IF LogInboundPanics(resp, ch)
    THEN Exchange(decoded, req, TRUE, resp, Panic("range end index out of range"))
    ELSE Exchange(decoded, req, TRUE, resp, from_raw(resp, ch.reply.valid))

\* lines 79-81, on the frame recv_raw returned
ValidateAndDecode(calls, req, resp, ch) ==
    IF TypeTagIndexPanics(req, resp)
    THEN Exchange(calls, req, TRUE, resp, Panic("index out of bounds"))
    ELSE IF ~TypeTagMatches(req, resp)
    THEN Exchange(calls, req, TRUE, resp, Err("response command type mismatch"))
    ELSE IF LogInboundPanics(resp, ch)
    THEN Exchange(calls, req, TRUE, resp, Panic("range end index out of range"))
    ELSE Exchange(calls \o <<Ev("from_raw", 0, resp, 0)>>, req, TRUE, resp,
                  from_raw(resp, ch.reply.valid))

\* an exchange that sends and receives a second time when the receive fails
SendAndReceive_retry(calls, req, wait, ch) ==
    LET s == send_raw(req, ch) IN
    IF s.kind = "Err"
    THEN Exchange(calls \o s.calls, req, FALSE, <<>>, Err("send"))
    ELSE LET slept == calls \o s.calls \o <<Ev("sleep", 0, <<>>, SLEEP_US)>>
             r == recv_raw(wait, ch)
         IN  IF r.kind = "Err"
             THEN Exchange(slept \o r.calls \o s.calls \o r.calls, req, FALSE, <<>>,
                           Err("recv " \o r.err))
             ELSE ValidateAndDecode(slept \o r.calls, req, r.data, ch)

\* lines 75-78, on the serialised command
SendAndReceive(calls, req, wait, ch) ==
    LET s == send_raw(req, ch) IN
    IF s.kind = "Err"
    THEN Exchange(calls \o s.calls, req, FALSE, <<>>, Err("send"))
    ELSE LET slept == calls \o s.calls \o <<Ev("sleep", 0, <<>>, SLEEP_US)>>
             r == recv_raw(wait, ch)
         IN  IF r.kind = "Err"
             THEN Exchange(slept \o r.calls, req, FALSE, <<>>, Err("recv " \o r.err))
             ELSE ValidateAndDecode(slept \o r.calls, req, r.data, ch)

transfer_with_wait(cmd, wait, ch) ==
    LET e == into_raw(cmd)
        calls == <<Ev("into_raw", 0, <<>>, 0)>>
    IN  IF e.kind = "Err"
        THEN Exchange(calls, <<>>, FALSE, <<>>, Err("encoding"))
        ELSE IF LogOutboundPanics(e.raw, ch)
        THEN Exchange(calls, e.raw, FALSE, <<>>, Panic("range end index out of range"))
        ELSE SendAndReceive(calls, e.raw, wait, ch)

\* a transfer that waits for the hardware timeout instead of the default one
transfer_hw_timeout(cmd, ch) ==
    transfer_with_wait(cmd, USB_TIMEOUT_MS, ch)

transfer(cmd, ch) ==
    transfer_with_wait(cmd, DEFAULT_TRANSPORT_TIMEOUT_MS, ch)

(***************************************************************************)
(* The USB bus.                                                            *)
(***************************************************************************)
Slots == 1..MaxDevices
NoDevice == [kind |-> "NoDevice"]

\* an attached device: its identity, whether its device descriptor can be read,
\* and configuration descriptor 0 as interfaces -> alternate settings -> endpoint
\* addresses
Device(vid, pid, desc, config) ==
    [kind |-> "Device", vid |-> vid, pid |-> pid, desc |-> desc, config |-> config]

BothEndpoints == << <<{ENDPOINT_OUT, ENDPOINT_IN}>> >>

\* the devices that get attached: WCH ISP devices with both endpoints, with the
\* in endpoint on a second interface only, with the out endpoint in a second
\* alternate setting only, with no interface, with an unreadable descriptor; and
\* devices of another product (0x7523) or of another vendor (0x1a86)
Catalogue ==
    {Device(VENDOR_ID, PRODUCT_ID, TRUE, BothEndpoints),
     Device(VENDOR_ID, PRODUCT_ID, TRUE, << <<{ENDPOINT_OUT}>>, <<{ENDPOINT_IN}>> >>),
     Device(VENDOR_ID, PRODUCT_ID, TRUE,
            << <<{ENDPOINT_IN}, {ENDPOINT_OUT, ENDPOINT_IN}>> >>),
     Device(VENDOR_ID, PRODUCT_ID, TRUE, << >>),
     Device(VENDOR_ID, PRODUCT_ID, FALSE, BothEndpoints),
     Device(VENDOR_ID, 29987, TRUE, BothEndpoints),
     Device(6790, PRODUCT_ID, TRUE, BothEndpoints)}

\* the step of an operation that the USB stack fails, if any
ScanFaults == {"none", "context", "devices"}
OpenFaults ==
    {"none", "context", "devices", "open:Access", "open:NotSupported", "open:Io",
     "config_descriptor", "set_active_configuration", "active_config_descriptor",
     "device_descriptor", "claim_interface"}
TargetOs == {"linux", "windows", "macos"}
\* the inputs of an open: the fault and the target_os of the build; the build
\* matters to a failing device.open() only
OpenInputs ==
    {<<f, "linux">> : f \in OpenFaults}
        \cup {<<f, os>> : f \in {"open:Access", "open:NotSupported"},
                          os \in {"windows", "macos"}}

\* result of a bus operation
UOk == [kind |-> "Ok", err |-> ""]
UErr(what) == [kind |-> "Err", err |-> what]

\* context.devices(): the attached devices, in bus order
devices(b) == SelectSeq([s \in Slots |-> s], LAMBDA s : b[s].kind = "Device")

\* a filter that looks at the vendor id alone
IsWchIsp_vendor_only(dev) ==
    IF dev.desc
    THEN dev.vid = VENDOR_ID
    ELSE FALSE

\* a filter that lets a device with an unreadable descriptor through
IsWchIsp_unreadable_matches(dev) ==
    IF dev.desc
    THEN dev.vid = VENDOR_ID /\ dev.pid = PRODUCT_ID
    ELSE TRUE

\* the filter closure of scan_devices and open_nth
IsWchIsp(dev) ==
    IF dev.desc
    THEN dev.vid = VENDOR_ID /\ dev.pid = PRODUCT_ID
    ELSE FALSE

Filtered(b) == SelectSeq(devices(b), LAMBDA s : IsWchIsp(b[s]))

scan_devices(b, fault) ==
    IF fault = "context" THEN [result |-> UErr("context"), n |-> 0, steps |-> <<>>]
    ELSE IF fault = "devices" THEN [result |-> UErr("devices"), n |-> 0, steps |-> <<>>]
    ELSE [result |-> UOk, n |-> Len(Filtered(b)), steps |-> <<>>]

\* an endpoint search over every alternate setting of every interface
EndpointsFound_any_interface(config) ==
    LET eps == UNION {UNION {config[i][j] : j \in 1..Len(config[i])} :
                        i \in 1..Len(config)}
    IN
    ENDPOINT_OUT \in eps /\ ENDPOINT_IN \in eps

\* lines 161-178: both endpoints in the first alternate setting of the first
\* interface
EndpointsFound(config) ==
    LET eps == IF Len(config) > 0 /\ Len(config[1]) > 0 THEN config[1][1] ELSE {}
    IN  ENDPOINT_OUT \in eps /\ ENDPOINT_IN \in eps

\* a failed device.open() reported by the generic error on every platform
OpenError_generic(fault, os) ==
    UErr("Failed to open USB device")

\* lines 139-157: the error of a failed device.open()
OpenError(fault, os) ==
    IF fault = "open:NotSupported" /\ os = "windows"
    THEN UErr("Failed to open USB device on Windows")
    ELSE IF fault = "open:Access" /\ os = "linux"
    THEN UErr("Failed to open USB device on Linux due to no enough permission")
    ELSE UErr("Failed to open USB device")

\* the outcome of an open: the result, the device selected (0: none), the
\* operations performed on it, and the claims after it
Opened(result, slot, steps, h) ==
    [result |-> result, slot |-> slot, steps |-> steps, held |-> h]

\* an open that ignores the result of claim_interface
ConfigureAndClaim_ignores_claim_error(slot, steps, h, fault) ==
    LET s1 == steps \o <<"set_active_configuration">>
        s2 == s1 \o <<"active_config_descriptor">>
        s3 == s2 \o <<"device_descriptor">>
        s4 == s3 \o <<"claim_interface">>
    IN  IF fault = "set_active_configuration"
        THEN Opened(UErr("set_active_configuration"), slot, s1 \o <<"close">>, h)
        ELSE IF fault = "active_config_descriptor"
        THEN Opened(UErr("active_config_descriptor"), slot, s2 \o <<"close">>, h)
        ELSE IF fault = "device_descriptor"
        THEN Opened(UErr("device_descriptor"), slot, s3 \o <<"close">>, h)
        ELSE IF h[slot] \/ fault = "claim_interface"
        THEN Opened(UOk, slot, s4, h)
        ELSE Opened(UOk, slot, s4, [h EXCEPT ![slot] = TRUE])

\* lines 180-186, on the opened handle; a handle dropped on an error path is closed
ConfigureAndClaim(slot, steps, h, fault) ==
    LET s1 == steps \o <<"set_active_configuration">>
        s2 == s1 \o <<"active_config_descriptor">>
        s3 == s2 \o <<"device_descriptor">>
        s4 == s3 \o <<"claim_interface">>
    IN  IF fault = "set_active_configuration"
        THEN Opened(UErr("set_active_configuration"), slot, s1 \o <<"close">>, h)
        ELSE IF fault = "active_config_descriptor"
        THEN Opened(UErr("active_config_descriptor"), slot, s2 \o <<"close">>, h)
        ELSE IF fault = "device_descriptor"
        THEN Opened(UErr("device_descriptor"), slot, s3 \o <<"close">>, h)
        ELSE IF h[slot]
        THEN Opened(UErr("claim_interface: Busy"), slot, s4 \o <<"close">>, h)
        ELSE IF fault = "claim_interface"
        THEN Opened(UErr("claim_interface"), slot, s4 \o <<"close">>, h)
        ELSE Opened(UOk, slot, s4, [h EXCEPT ![slot] = TRUE])

\* lines 139-178, on the selected device
OpenDevice(slot, b, h, fault, os) ==
    IF fault \in {"open:Access", "open:NotSupported", "open:Io"}
    THEN Opened(OpenError(fault, os), slot, <<"open">>, h)
    ELSE IF fault = "config_descriptor"
    THEN Opened(UErr("config_descriptor"), slot,
                <<"open", "config_descriptor", "close">>, h)
    ELSE IF ~EndpointsFound(b[slot].config)
    THEN Opened(UErr("USB Endpoints not found"), slot,
                <<"open", "config_descriptor", "close">>, h)
    ELSE ConfigureAndClaim(slot, <<"open", "config_descriptor">>, h, fault)

\* a selection that indexes the attached devices without filtering them
NthMatch_unfiltered(nth, b) ==
    IF nth < Len(devices(b)) THEN devices(b)[nth + 1] ELSE 0

\* a selection that takes the first match whatever the index
NthMatch_first(nth, b) ==
    IF nth < Len(Filtered(b)) THEN Filtered(b)[1] ELSE 0

\* lines 123-132: .filter(..).nth(nth), 0 when there is none
NthMatch(nth, b) ==
    IF nth < Len(Filtered(b)) THEN Filtered(b)[nth + 1] ELSE 0

open_nth(nth, b, h, fault, os) ==
    IF fault = "context" THEN Opened(UErr("context"), 0, <<>>, h)
    ELSE IF fault = "devices" THEN Opened(UErr("devices"), 0, <<>>, h)
    ELSE IF NthMatch(nth, b) = 0
    THEN Opened(UErr("No WCH ISP USB device found"), 0, <<>>, h)
    ELSE OpenDevice(NthMatch(nth, b), b, h, fault, os)

\* an open_any that opens the second device instead of the first
open_any_second(b, h, fault, os) ==
    open_nth(1, b, h, fault, os)

open_any(b, h, fault, os) ==
    open_nth(0, b, h, fault, os)

\* DeviceHandle::release_interface: on success the claim is gone
release_interface(slot, h, rel) ==
    IF rel = "Ok" THEN [h EXCEPT ![slot] = FALSE] ELSE h

\* closing the handle gives up whatever it had claimed
close(slot, h) == [h EXCEPT ![slot] = FALSE]

\* a drop that releases the interface but never closes the handle
drop_leaks_handle(slot, h, rel) ==
    [steps |-> <<"release_interface">>, held |-> release_interface(slot, h, rel),
     result |-> "returned"]

\* a drop that resets the device (line 199, commented out in the source)
drop_with_reset(slot, h, rel) ==
    [steps |-> <<"release_interface", "reset", "close">>,
     held |-> close(slot, release_interface(slot, h, rel)),
     result |-> "returned"]

\* impl Drop for UsbTransport: release, the result ignored (let _ =), so the drop
\* returns whatever the release reports; the handle, a field of the object, is
\* dropped with it
drop(slot, h, rel) ==
    [steps |-> <<"release_interface", "close">>,
     held |-> close(slot, release_interface(slot, h, rel)),
     result |-> "returned"]

(***************************************************************************)
(* Specification of the exchange.                                          *)
(***************************************************************************)
NoCall == [entry |-> "none"]
Call(entry, cmd, wait, x) == [entry |-> entry, cmd |-> cmd, wait |-> wait, x |-> x]

UsbIdle ==
    /\ bus = [s \in Slots |-> NoDevice]
    /\ held = [s \in Slots |-> FALSE]
    /\ channels = [s \in Slots |-> 0]
    /\ last = [op |-> "none"]

Init ==
    /\ chan \in Channels
    /\ out = NoCall
    /\ lastTransfer = NoCall
    /\ UsbIdle

Transfer(cmd) ==
    /\ out' = Call("transfer", cmd, 0, transfer(cmd, chan))
    /\ lastTransfer' = out'
    /\ UNCHANGED <<chan, usbVars>>

TransferWithWait(cmd, wait) ==
    /\ out' = Call("transfer_with_wait", cmd, wait, transfer_with_wait(cmd, wait, chan))
    /\ UNCHANGED <<chan, lastTransfer, usbVars>>

Next ==
    \/ \E cmd \in Commands : Transfer(cmd)
    \/ \E cmd \in Commands, wait \in Waits : TransferWithWait(cmd, wait)

Spec == Init /\ [][Next]_vars

(***************************************************************************)
(* Properties of the exchange (under Spec).                                *)
(***************************************************************************)
Called == out.entry # "none"
Received == Called /\ out.x.received
MismatchError == Err("response command type mismatch")

\* C1: whenever recv_raw returns a frame whose first byte differs from the first
\* byte of the serialised command, the exchange fails with the protocol-mismatch
\* error whatever the rest of the frame is; and every Response returned carries
\* the type tag of the command that was sent.
C1_TagMismatchFails ==
    /\ (Received /\ Len(out.x.resp) > 0 /\ out.x.resp[1] # out.x.req[1])
            => out.x.result = MismatchError
    /\ (Called /\ out.x.result.kind = "Ok")
            => (Received /\ out.x.result.tag = out.x.req[1])

\* the scenario of the specification: [0x01, 0xAA, 0xBB] answered by [0x02, 0xCC]
C1_Witness ==
    /\ Received
    /\ out.entry = "transfer"
    /\ out.x.req = <<1, 170, 187>>
    /\ out.x.resp = <<2, 204>>
    /\ out.x.result = MismatchError

\* C2: a reply whose first byte equals the command's first byte is accepted and
\* passed to decoding, for every reply length from 1 to 64 bytes; [0x01, 0xAA, 0xBB]
\* answered by the decodable frame [0x01, 0xCC] yields a Response of type tag 0x01.
C2_MatchingReplyDecoded ==
    /\ (Received /\ Len(out.x.resp) \in 1..64 /\ out.x.resp[1] = out.x.req[1])
            => /\ out.x.calls[Len(out.x.calls)] = Ev("from_raw", 0, out.x.resp, 0)
               /\ out.x.result.kind \in {"Ok", "Err"}
    /\ (Received /\ out.entry = "transfer" /\ out.x.req = <<1, 170, 187>>
            /\ out.x.resp = <<1, 204>> /\ chan.reply.valid)
            => out.x.result = Ok(1)

\* C3: every exchange finishes by returning a Response or an error value; none
\* terminates abnormally.
C3_NoAbnormalTermination ==
    Called => out.x.result.kind \in {"Ok", "Err"}

\* C4: transfer(cmd) and transfer_with_wait(cmd, 1000 ms) on the same channel
\* behaviour issue the same calls with the same arguments and return the same
\* result or the same error.
C4_TransferIsWait1000 ==
    (/\ lastTransfer.entry = "transfer"
     /\ out.entry = "transfer_with_wait"
     /\ out.wait = 1000
     /\ out.cmd = lastTransfer.cmd)
        => out.x = lastTransfer.x

\* both calls made on a peer that replies after 1000 ms: both time out
C4_Witness ==
    /\ lastTransfer.entry = "transfer"
    /\ out.entry = "transfer_with_wait"
    /\ out.wait = 1000
    /\ out.cmd = lastTransfer.cmd
    /\ chan.reply.delay = SlowReply
    /\ out.x.result = Err("recv timeout")
    /\ \E i \in 1..Len(out.x.calls) : out.x.calls[i] = Ev("recv_raw", 0, <<>>, 1000)

\* C5: when the bulk read produces n bytes, recv_raw returns exactly those n
\* bytes, never the zero-filled rest of the buffer and never more than 64 bytes.
C5_RecvReturnsBytesRead ==
    Received =>
        /\ out.x.resp = chan.reply.pkt
        /\ Len(out.x.resp) <= 64

\* a short frame that ends in a zero byte of its own
C5_Witness ==
    /\ Received
    /\ Len(out.x.resp) = 3
    /\ out.x.resp[3] = 0

\* the calls of an exchange by name, and how many of them have a given name
Ops == [i \in 1..Len(out.x.calls) |-> out.x.calls[i].op]
CountOp(op) == Cardinality({i \in 1..Len(out.x.calls) : out.x.calls[i].op = op})
CallsOf(op) == {out.x.calls[i] : i \in {j \in 1..Len(out.x.calls) : out.x.calls[j].op = op}}
\* the wait the receive step of the call is given
WaitOf == IF out.entry = "transfer" THEN 1000 ELSE out.wait
FullOrder ==
    <<"into_raw", "send_raw", "write_bulk", "sleep", "recv_raw", "read_bulk", "from_raw">>

\* C11: nothing is retried: one exchange issues at most one send_raw and at most
\* one recv_raw; nothing is sent when serialisation fails, no recv_raw follows a
\* failed send_raw, and a failed or timed-out recv_raw ends the exchange with its
\* error, without a second send or receive.
C11_NoRetry ==
    Called =>
        /\ CountOp("send_raw") <= 1 /\ CountOp("write_bulk") <= 1
        /\ CountOp("recv_raw") <= 1 /\ CountOp("read_bulk") <= 1
        /\ out.x.result = Err("encoding") => Ops = <<"into_raw">>
        /\ out.x.result = Err("send")
                => Ops = <<"into_raw", "send_raw", "write_bulk">>
        /\ (out.x.result.kind = "Err" /\ ~out.x.received
                /\ out.x.result.err \notin {"encoding", "send"})
                => /\ out.x.result.err \in {"recv io", "recv timeout", "recv overflow"}
                   /\ Ops = SubSeq(FullOrder, 1, 6)
        /\ (chan.write = "Err" /\ CountOp("send_raw") = 1)
                => out.x.result = Err("send")
        /\ (chan.reply.kind = "Err" /\ CountOp("recv_raw") = 1)
                => out.x.result = Err("recv io")

\* the receive timed out after one send and one receive
C11_Witness ==
    /\ Called
    /\ out.x.result = Err("recv timeout")
    /\ CountOp("send_raw") = 1
    /\ CountOp("recv_raw") = 1

\* C12: the steps of an exchange occur in the order serialise, send_raw, delay,
\* recv_raw, type-tag check, deserialise: the receive is issued only after the send
\* has completed and the delay was made, and Response::from_raw is invoked only on
\* a frame that passed the type-tag check.
C12_StepOrder ==
    Called =>
        /\ Ops = SubSeq(FullOrder, 1, Len(Ops))
        /\ CountOp("recv_raw") = 1 => (chan.write = "Ok" /\ CountOp("sleep") = 1)
        /\ CountOp("from_raw") = 1
                => /\ out.x.received
                   /\ Len(out.x.resp) > 0
                   /\ out.x.resp[1] = out.x.req[1]
                   /\ CallsOf("from_raw") = {Ev("from_raw", 0, out.x.resp, 0)}
        /\ out.x.result.kind = "Ok" => Ops = FullOrder

\* a complete exchange
C12_Witness ==
    /\ Called
    /\ out.x.result.kind = "Ok"
    /\ Ops = FullOrder

C14_WritesSerializedCommand ==
    Called =>
        /\ CountOp("write_bulk") <= 1
        /\ \A c \in CallsOf("write_bulk") :
                /\ c.ep = 2
                /\ c.data = out.x.req
                /\ c.data = <<out.cmd.tag>> \o [i \in 1..out.cmd.len |-> PayloadByte(i)]
        /\ \A c \in CallsOf("send_raw") : c.data = out.x.req
        /\ CountOp("write_bulk") = CountOp("send_raw")

\* the three bytes [0x01, 0xAA, 0xBB] written as they are
C14_Witness ==
    /\ Called
    /\ Ev("write_bulk", 2, <<1, 170, 187>>, 5000) \in CallsOf("write_bulk")
    /\ out.x.req = <<1, 170, 187>>

(***************************************************************************)
(* Specification of the USB bus.                                           *)
(***************************************************************************)
XferIdle ==
    /\ chan = [log |-> FALSE, write |-> "Ok",
               reply |-> [kind |-> "Err", pkt |-> <<>>, delay |-> 0, valid |-> FALSE]]
    /\ out = NoCall
    /\ lastTransfer = NoCall

InitUsb ==
    /\ UsbIdle
    /\ XferIdle

\* what the bus looked like before an operation
Before == [held |-> held, channels |-> channels]

Attach(s, dev) ==
    /\ bus[s].kind = "NoDevice"
    /\ bus' = [bus EXCEPT ![s] = dev]
    /\ last' = [op |-> "attach", slot |-> s]
    /\ UNCHANGED <<held, channels, xferVars>>

\* a device is unplugged (here: one that no channel is open on)
Detach(s) ==
    /\ bus[s].kind = "Device"
    /\ channels[s] = 0
    /\ bus' = [bus EXCEPT ![s] = NoDevice]
    /\ last' = [op |-> "detach", slot |-> s]
    /\ UNCHANGED <<held, channels, xferVars>>

ScanDevices(fault) ==
    /\ last' = [op |-> "scan_devices", fault |-> fault, pre |-> Before,
                x |-> scan_devices(bus, fault)]
    /\ UNCHANGED <<bus, held, channels, xferVars>>

\* a fault is an input of an operation that reaches the step it fails
FaultHit(fault, x) ==
    \/ fault = "none"
    \/ x.result = UErr(fault)
    \/ fault \in {"open:Access", "open:NotSupported", "open:Io"} /\ x.steps = <<"open">>

\* the effect of an open on the bus: the claims, and a channel when it succeeded
Open(op, nth, fault, os, x) ==
    /\ FaultHit(fault, x)
    /\ last' = [op |-> op, nth |-> nth, fault |-> fault, os |-> os, pre |-> Before,
                \* the device is one whose channel was dropped just before, the
                \* release_interface of that drop failing
                afterFailedRelease |->
                    last.op = "drop" /\ last.rel = "Err" /\ last.slot = x.slot,
                x |-> x]
    /\ held' = x.held
    /\ channels' = IF x.result.kind = "Ok"
                   THEN [channels EXCEPT ![x.slot] = @ + 1]
                   ELSE channels
    /\ UNCHANGED <<bus, xferVars>>

OpenNth(nth, fault, os) ==
    Open("open_nth", nth, fault, os, open_nth(nth, bus, held, fault, os))

OpenAny(fault, os) ==
    Open("open_any", 0, fault, os, open_any(bus, held, fault, os))

\* the lifetime of a channel on the device in slot s ends
Drop(s, rel) ==
    /\ channels[s] > 0
    /\ LET x == drop(s, held, rel) IN
        /\ last' = [op |-> "drop", slot |-> s, rel |-> rel, pre |-> Before, x |-> x]
        /\ held' = x.held
    /\ channels' = [channels EXCEPT ![s] = @ - 1]
    /\ UNCHANGED <<bus, xferVars>>

NextUsb ==
    \/ \E s \in Slots, dev \in Catalogue : Attach(s, dev)
    \/ \E s \in Slots : Detach(s)
    \/ \E fault \in ScanFaults : ScanDevices(fault)
    \/ \E nth \in 0..MaxDevices, i \in OpenInputs : OpenNth(nth, i[1], i[2])
    \/ \E i \in OpenInputs : OpenAny(i[1], i[2])
    \/ \E s \in Slots, rel \in {"Ok", "Err"} : Drop(s, rel)

SpecUsb == InitUsb /\ [][NextUsb]_vars

(***************************************************************************)
(* Properties of the USB bus (under SpecUsb).                              *)
(***************************************************************************)
\* the slots of the attached devices whose descriptor reads 0x4348:0x55e0
WchSlots == {s \in Slots : bus[s].kind = "Device" /\ bus[s].desc
                            /\ bus[s].vid = 17224 /\ bus[s].pid = 21984}
\* the n-th of them (from 0) in bus order
WchNth(n) == CHOOSE s \in WchSlots : Cardinality({t \in WchSlots : t < s}) = n
IsOpen == last.op \in {"open_nth", "open_any"}
StackUp == last.fault \notin {"context", "devices"}
NotFound == UErr("No WCH ISP USB device found")
HasBothEndpoints(s) ==
    /\ Len(bus[s].config) > 0
    /\ Len(bus[s].config[1]) > 0
    /\ {2, 130} \subseteq bus[s].config[1][1]

\* C6: scan_devices returns exactly the number of attached devices whose
\* descriptor has vendor id 0x4348 and product id 0x55e0, 0 when there is none,
\* whatever other devices are attached (the USB stack being up).
C6_ScanCountsMatches ==
    (last.op = "scan_devices" /\ StackUp)
        => /\ last.x.result = UOk
           /\ last.x.n = Cardinality(WchSlots)

\* one match counted next to a device of the same vendor and another product
C6_Witness ==
    /\ last.op = "scan_devices"
    /\ last.x.result = UOk
    /\ last.x.n = 1
    /\ \E s \in Slots : /\ bus[s].kind = "Device"
                        /\ bus[s].vid = 17224
                        /\ bus[s].pid # 21984

\* C7: open_nth(i) with i at or beyond the number of attached matching devices
\* fails with the not-found error before any device is opened, configured or
\* claimed (the USB stack being up).
C7_IndexBeyondMatchesNotFound ==
    (IsOpen /\ StackUp /\ last.nth >= Cardinality(WchSlots))
        => /\ last.x.result = NotFound
           /\ last.x.steps = <<>>
           /\ last.x.slot = 0
           /\ held = last.pre.held
           /\ channels = last.pre.channels

\* index 1 with two devices attached of which one matches
C7_Witness ==
    /\ last.op = "open_nth"
    /\ last.nth = 1
    /\ Cardinality(WchSlots) = 1
    /\ \A s \in Slots : bus[s].kind = "Device"
    /\ last.x.result = NotFound

\* C8: open_any() does what open_nth(0) does from the same state of the bus: the
\* same steps on the same device, the same channel or the same error.
C8_OpenAnyIsOpenNth0 ==
    [][last'.op = "open_any" =>
        LET x == open_nth(0, bus, held, last'.fault, last'.os) IN
        /\ last'.x = x
        /\ held' = x.held
        /\ channels' = IF x.result.kind = "Ok"
                       THEN [channels EXCEPT ![x.slot] = @ + 1]
                       ELSE channels
        /\ bus' = bus]_vars

\* open_any opened the second device on the bus, the first one matching
C8_Witness ==
    /\ last.op = "open_any"
    /\ last.x.result = UOk
    /\ last.x.slot = 2
    /\ channels[2] = 1

\* C9: with two matching devices attached, both with both endpoints: scan_devices
\* returns 2; open_nth(0) and open_nth(1) succeed on a device no channel is open
\* on, in either order and while the other channel is alive, each channel holding
\* the claim of its own device; open_nth(2) fails with not-found and leaves the
\* channels as they were.
C9_TwoDevices ==
    (Cardinality(WchSlots) = 2 /\ \A s \in WchSlots : HasBothEndpoints(s))
        => /\ (last.op = "scan_devices" /\ StackUp) => last.x.n = 2
           /\ \A n \in {0, 1} :
                (last.op = "open_nth" /\ last.nth = n /\ last.fault = "none"
                    /\ last.pre.channels[WchNth(n)] = 0)
                    => /\ last.x.result = UOk
                       /\ last.x.slot = WchNth(n)
                       /\ held[WchNth(n)]
                       /\ channels = [last.pre.channels EXCEPT ![WchNth(n)] = 1]
                       /\ held[WchNth(1 - n)] = last.pre.held[WchNth(1 - n)]
           /\ (last.op = "open_nth" /\ last.nth = 2 /\ StackUp)
                    => /\ last.x.result = NotFound
                       /\ held = last.pre.held
                       /\ channels = last.pre.channels
           /\ \A s \in Slots : channels[s] <= 1 /\ (held[s] <=> channels[s] = 1)

\* the first device opened while the channel on the second is alive
C9_Witness ==
    /\ Cardinality(WchSlots) = 2
    /\ last.op = "open_nth"
    /\ last.nth = 0
    /\ last.x.result = UOk
    /\ last.pre.channels[WchNth(1)] = 1
    /\ channels[WchNth(0)] = 1
    /\ channels[WchNth(1)] = 1

\* C10: once the lifetime of a channel has ended, its interface is free and an
\* open_nth of the same device claims interface 0 again, also when the
\* release_interface of the drop reported an error (no step of the open being
\* failed by the USB stack).
C10_ReopenAfterDrop ==
    /\ (last.op = "drop" /\ channels[last.slot] = 0) => ~held[last.slot]
    /\ \A n \in 0..MaxDevices :
        (/\ IsOpen /\ last.nth = n /\ last.fault = "none"
         /\ n < Cardinality(WchSlots)
         /\ HasBothEndpoints(WchNth(n))
         /\ last.pre.channels[WchNth(n)] = 0)
            => /\ last.x.result = UOk
               /\ last.x.slot = WchNth(n)
               /\ held[WchNth(n)]

\* a device reopened right after the drop of its channel reported an error
C10_Witness ==
    /\ last.op = "open_nth"
    /\ last.x.result = UOk
    /\ last.afterFailedRelease
    /\ "claim_interface" = last.x.steps[Len(last.x.steps)]
    /\ held[last.x.slot]

\* the steps an operation performed on a device
StepSet == {last.x.steps[i] : i \in 1..Len(last.x.steps)}
OpenFailed == last.fault \in {"open:Access", "open:NotSupported", "open:Io"}
AllOpenSteps ==
    <<"open", "config_descriptor", "set_active_configuration",
      "active_config_descriptor", "device_descriptor", "claim_interface">>

\* C15: when the first alternate setting of the first interface of the selected
\* device lacks endpoint 0x02 or 0x82, or the device has no interface, open_nth
\* fails, with the endpoints-not-found error once the device is opened and its
\* configuration descriptor read, and on that path the configuration is not set
\* and interface 0 is not claimed.
C15_MissingEndpoints ==
    \A n \in 0..MaxDevices :
        (/\ IsOpen /\ last.nth = n /\ StackUp
         /\ n < Cardinality(WchSlots)
         /\ ~HasBothEndpoints(WchNth(n)))
            => /\ last.x.result.kind = "Err"
               /\ "set_active_configuration" \notin StepSet
               /\ "claim_interface" \notin StepSet
               /\ held = last.pre.held
               /\ channels = last.pre.channels
               /\ last.fault = "none"
                    => /\ last.x.result = UErr("USB Endpoints not found")
                       /\ last.x.slot = WchNth(n)
                       /\ last.x.steps = <<"open", "config_descriptor", "close">>

\* a device that has the in endpoint on its second interface only
C15_Witness ==
    /\ last.op = "open_nth"
    /\ last.x.result = UErr("USB Endpoints not found")
    /\ Len(bus[last.x.slot].config) = 2
    /\ 130 \in bus[last.x.slot].config[2][1]

\* C16: when device.open() fails, open_nth returns an error and no channel: the
\* guidance error of the platform for access-denied on Linux and for not-supported
\* on Windows, the generic open error for every other failure; the errors differ.
C16_OpenFailureErrors ==
    (IsOpen /\ OpenFailed)
        => /\ last.x.result.kind = "Err"
           /\ last.x.steps = <<"open">>
           /\ channels = last.pre.channels
           /\ held = last.pre.held
           /\ last.x.result.err =
                IF last.fault = "open:Access" /\ last.os = "linux"
                THEN "Failed to open USB device on Linux due to no enough permission"
                ELSE IF last.fault = "open:NotSupported" /\ last.os = "windows"
                THEN "Failed to open USB device on Windows"
                ELSE "Failed to open USB device"

\* not-supported on a Windows build
C16_Witness ==
    /\ last.op = "open_nth"
    /\ last.fault = "open:NotSupported"
    /\ last.os = "windows"
    /\ last.x.result = UErr("Failed to open USB device on Windows")

\* C17: when the lifetime of a channel ends, interface 0 is released exactly once,
\* the result of the release is discarded (the drop returns, whatever the release
\* reports) and the device is not reset.
C17_DropReleasesOnce ==
    last.op = "drop"
        => /\ Cardinality({i \in 1..Len(last.x.steps) :
                            last.x.steps[i] = "release_interface"}) = 1
           /\ "reset" \notin StepSet
           /\ last.x.steps = <<"release_interface", "close">>
           /\ last.x.result = "returned"
           /\ channels = [last.pre.channels EXCEPT ![last.slot] = @ - 1]
           /\ bus[last.slot].kind = "Device"

\* a drop whose release_interface reported an error
C17_Witness ==
    /\ last.op = "drop"
    /\ last.rel = "Err"
    /\ last.x.result = "returned"
    /\ channels[last.slot] = 0

\* C18: scan_devices opens, configures and claims nothing and fails only when the
\* USB context cannot be created or the devices cannot be listed; a device whose
\* descriptor cannot be read is not counted, and open_nth skips it when indexing.
C18_ScanTouchesNothing ==
    /\ last.op = "scan_devices"
        => /\ last.x.steps = <<>>
           /\ held = last.pre.held
           /\ channels = last.pre.channels
           /\ last.x.result.kind = "Err" <=> last.fault \in {"context", "devices"}
           /\ last.x.result.kind = "Ok"
                => last.x.n = Cardinality({s \in Slots :
                        /\ bus[s].kind = "Device"
                        /\ bus[s].desc
                        /\ bus[s].vid = 17224
                        /\ bus[s].pid = 21984})
    /\ (IsOpen /\ last.x.slot # 0)
        => /\ bus[last.x.slot].desc
           /\ last.x.slot = WchNth(last.nth)

\* one device counted, the unreadable 0x4348:0x55e0 device before it left out
C18_Witness ==
    /\ last.op = "scan_devices"
    /\ last.x.result = UOk
    /\ last.x.n = 1
    /\ bus[1].kind = "Device"
    /\ ~bus[1].desc
    /\ bus[1].vid = 17224
    /\ bus[1].pid = 21984

\* C19: a channel exists only when open_nth completed open, endpoint check,
\* set-configuration and claim; a failing open_nth returns no channel and leaves
\* no interface claimed; and never do two live channels hold interface 0 of the
\* same device.
C19_ChannelOwnership ==
    /\ \A s \in Slots :
        /\ channels[s] <= 1
        /\ held[s] <=> channels[s] = 1
        /\ channels[s] = 1 => (bus[s].kind = "Device" /\ HasBothEndpoints(s))
    /\ IsOpen
        => IF last.x.result.kind = "Ok"
           THEN /\ last.x.steps = AllOpenSteps
                /\ last.x.slot \in Slots
                /\ HasBothEndpoints(last.x.slot)
                /\ last.pre.channels[last.x.slot] = 0
                /\ ~last.pre.held[last.x.slot]
                /\ channels = [last.pre.channels EXCEPT ![last.x.slot] = 1]
                /\ held = [last.pre.held EXCEPT ![last.x.slot] = TRUE]
           ELSE /\ channels = last.pre.channels
                /\ held = last.pre.held

\* an open refused because a live channel holds the interface of the device
C19_Witness ==
    /\ last.op = "open_nth"
    /\ last.x.result = UErr("claim_interface: Busy")
    /\ channels[last.x.slot] = 1
    /\ held[last.x.slot]

====
